---- MODULE Spec2Model ----
(***************************************************************************)
(* Attendance approval and hour accounting of the ICES community-service   *)
(* tracker.  The state is the three tables of the schema (profiles,        *)
(* events, attendance), the requests the dashboards have sent and the      *)
(* store has not yet executed, and the outcome of the statement executed   *)
(* last.  Every statement is executed by the store as one transaction:     *)
(* row-level-security policy, constraints, row write and the AFTER UPDATE  *)
(* trigger update_user_total_hours.                                        *)
(***************************************************************************)
EXTENDS Integers, FiniteSets, Bags, TLC

VARIABLES profiles, events, attendance, nextEventId, nextAttendanceId, inflight, last

vars == <<profiles, events, attendance, nextEventId, nextAttendanceId, inflight, last>>

---------------------------------------------------------------------------
(* Bounds of the model *)

\* events ever inserted
MaxEvents == 2
\* requests sent by dashboards and not yet executed
MaxInFlight == 2
\* total_hours values explored (additions beyond it are not explored)
TotalCap == 4

---------------------------------------------------------------------------
(* Schema *)

\* auth.users: two identities, each with a profile (handle_new_user)
Users == {"u1", "u2"}

user_role == {"admin", "officer", "member"}

attendance_status == {"pending", "approved", "denied"}

\* SQL NULL of a nullable INTEGER column (hours_awarded INTEGER DEFAULT 0)
NULL == -999

\* verified_by UUID REFERENCES auth.users(id), nullable
NoUser == "none"

\* integer hour values a caller supplies (the schema has no CHECK on them)
HourValues == {-1, 2}

\* values a caller may write to profiles.total_hours in a direct update
DirectTotals == {1}

\* profiles.role DEFAULT 'member'; u1 is the seeded administrator
SeedRole(u) == IF u = "u1" THEN "admin" ELSE "member"

---------------------------------------------------------------------------
(* SQL expressions over nullable integers *)

\* a + b, NULL if either is NULL
SqlAdd(a, b) == IF a = NULL \/ b = NULL THEN NULL ELSE a + b

\* a - b, NULL if either is NULL
SqlSub(a, b) == IF a = NULL \/ b = NULL THEN NULL ELSE a - b

\* GREATEST(a, b): NULL arguments are ignored
GREATEST(a, b) == IF b = NULL THEN a ELSE IF a = NULL THEN b ELSE IF a >= b THEN a ELSE b

---------------------------------------------------------------------------
(* Row-level-security policies *)

\* EXISTS (SELECT 1 FROM profiles WHERE user_id = auth.uid() AND role = r)
HasRole(profs, caller, roles) == profs[caller].role \in roles

\* (variant: the insert policy also admitting officers and admins, as the
\* SELECT and UPDATE policies of the table do)
AttendanceInsertPolicyOrStaff(profs, caller, row) ==
    caller = row.user_id \/ HasRole(profs, caller, {"admin", "officer"})

\* "Users can sign up for events": WITH CHECK (auth.uid() = user_id)
AttendanceInsertPolicy(profs, caller, row) == caller = row.user_id

\* (variant: the update policy written with 'member' in its role list)
AttendanceUpdatePolicyAnyRole(profs, caller) == HasRole(profs, caller, user_role)

\* "Officers and admins can update attendance"
AttendanceUpdatePolicy(profs, caller) == HasRole(profs, caller, {"admin", "officer"})

\* "Users can update their own profile": USING (auth.uid() = user_id)
ProfileUpdatePolicy(profs, caller, target) == caller = target

\* (variant: the role looked up without WHERE user_id = auth.uid(), which
\* yields the role of the first profile)
get_current_user_role_NoWhere(profs, caller) == profs[CHOOSE u \in Users : TRUE].role

\* get_current_user_role(): SELECT role FROM profiles WHERE user_id = auth.uid()
get_current_user_role(profs, caller) == profs[caller].role

\* "Users can view their own profile": USING (auth.uid() = user_id)
ProfileSelectOwnPolicy(caller, target) == caller = target

\* "Officers and admins can view all profiles":
\* USING (get_current_user_role() IN ('officer', 'admin'))
ProfileSelectAllPolicy(profs, caller) ==
    get_current_user_role(profs, caller) \in {"admin", "officer"}

\* (variant: the events policies written with role IN ('admin', 'officer'))
EventWritePolicyOfficers(profs, caller) == HasRole(profs, caller, {"admin", "officer"})

\* "Admins can insert / update / delete events"
EventWritePolicy(profs, caller) == HasRole(profs, caller, {"admin"})

---------------------------------------------------------------------------
(* Constraints *)

\* (variant: the table without its UNIQUE(event_id, user_id) constraint)
UniqueViolationNever(att, row) == FALSE

\* UNIQUE(event_id, user_id) on attendance
UniqueViolation(att, row) ==
    \E a \in att : a.event_id = row.event_id /\ a.user_id = row.user_id

\* event_id REFERENCES events(id)
ForeignKeyViolation(evs, row) == ~ \E e \in evs : e.id = row.event_id

\* total_hours INTEGER NOT NULL
NotNullViolation(profs) == \E u \in Users : profs[u].total_hours = NULL

---------------------------------------------------------------------------
(* Trigger function update_total_hours *)

\* (variant: the UPDATE of the add path without its WHERE clause)
AddHoursNoWhere(profs, uid, h) ==
    [u \in Users |-> [profs[u] EXCEPT !.total_hours = SqlAdd(@, h)]]

\* UPDATE profiles SET total_hours = total_hours + h WHERE user_id = uid
AddHours(profs, uid, h) ==
    [profs EXCEPT ![uid].total_hours = SqlAdd(@, h)]

\* (variant: the subtract path without GREATEST(0, ...))
SubtractHoursNoFloor(profs, uid, h) ==
    [profs EXCEPT ![uid].total_hours = SqlSub(@, h)]

\* UPDATE profiles SET total_hours = GREATEST(0, total_hours - h) WHERE user_id = uid
SubtractHours(profs, uid, h) ==
    [profs EXCEPT ![uid].total_hours = GREATEST(0, SqlSub(@, h))]

\* (variant: the add path without its test of OLD.status)
update_total_hours_AddIgnoresOld(old, new, profs) ==
    LET p1 == IF new.status = "approved"
              THEN AddHours(profs, new.user_id, new.hours_awarded)
              ELSE profs
    IN  IF old.status = "approved" /\ new.status # "approved"
        THEN SubtractHours(p1, new.user_id, old.hours_awarded)
        ELSE p1

\* (variant: the subtract path without its test of NEW.status)
update_total_hours_SubtractIgnoresNew(old, new, profs) ==
    LET p1 == IF new.status = "approved" /\ old.status # "approved"
              THEN AddHours(profs, new.user_id, new.hours_awarded)
              ELSE profs
    IN  IF old.status = "approved"
        THEN SubtractHours(p1, new.user_id, old.hours_awarded)
        ELSE p1

\* (variant: the trigger also correcting the total when the hours of a row
\* that stays approved are edited)
update_total_hours_CorrectsEdit(old, new, profs) ==
    LET p1 == IF new.status = "approved" /\ old.status # "approved"
              THEN AddHours(profs, new.user_id, new.hours_awarded)
              ELSE profs
        p2 == IF old.status = "approved" /\ new.status # "approved"
              THEN SubtractHours(p1, new.user_id, old.hours_awarded)
              ELSE p1
    IN  IF old.status = "approved" /\ new.status = "approved"
        THEN AddHours(p2, new.user_id, SqlSub(new.hours_awarded, old.hours_awarded))
        ELSE p2

\* old, new: the row before and after the UPDATE (OLD and NEW of the trigger)
update_total_hours(old, new, profs) ==
    LET p1 == IF new.status = "approved" /\ old.status # "approved"
              THEN AddHours(profs, new.user_id, new.hours_awarded)
              ELSE profs
    IN  IF old.status = "approved" /\ new.status # "approved"
        THEN SubtractHours(p1, new.user_id, old.hours_awarded)
        ELSE p1

---------------------------------------------------------------------------
(* Statements, each executed by the store as one transaction.  A statement  *)
(* yields the tables after it and its result: "ok"; "filtered" (the         *)
(* policy's USING clause hides every row from the caller) and "nomatch" (no *)
(* row has the id), for both of which the data API raises no error; or the  *)
(* error raised: "rls" (WITH CHECK), "fk", "unique", "notnull".             *)

Outcome(att, profs, evs, result) ==
    [att |-> att, profs |-> profs, evs |-> evs, result |-> result]

\* (variant: the row write committed on its own, the adjustment made by a
\* second statement that may fail after it)
WriteAttendanceRowThenAdjust(att, profs, evs, old, new) ==
    LET after == update_total_hours(old, new, profs)
    IN  IF NotNullViolation(after)
        THEN Outcome((att \ {old}) \cup {new}, profs, evs, "notnull")
        ELSE Outcome((att \ {old}) \cup {new}, after, evs, "ok")

\* the row write of an UPDATE on attendance followed, in the same
\* transaction, by the AFTER UPDATE ... FOR EACH ROW trigger
WriteAttendanceRow(att, profs, evs, old, new) ==
    LET after == update_total_hours(old, new, profs)
    IN  IF NotNullViolation(after)
        THEN Outcome(att, profs, evs, "notnull")
        ELSE Outcome((att \ {old}) \cup {new}, after, evs, "ok")

\* the row version an UPDATE ... WHERE id = id works on: the current one
TargetRows(att, id) == {a \in att : a.id = id}

\* UPDATE attendance SET <the columns of set> WHERE id = id
UpdateAttendance(att, profs, evs, caller, id, set) ==
    IF ~ AttendanceUpdatePolicy(profs, caller)
    THEN Outcome(att, profs, evs, "filtered")
    ELSE IF TargetRows(att, id) = {}
    THEN Outcome(att, profs, evs, "nomatch")
    ELSE LET old == CHOOSE a \in TargetRows(att, id) : TRUE
             new == [c \in DOMAIN old |-> IF c \in DOMAIN set THEN set[c] ELSE old[c]]
         IN  WriteAttendanceRow(att, profs, evs, old, new)

\* INSERT INTO attendance: no trigger fires on INSERT
InsertAttendance(att, profs, evs, caller, row) ==
    IF ~ AttendanceInsertPolicy(profs, caller, row)
    THEN Outcome(att, profs, evs, "rls")
    ELSE IF ForeignKeyViolation(evs, row)
    THEN Outcome(att, profs, evs, "fk")
    ELSE IF UniqueViolation(att, row)
    THEN Outcome(att, profs, evs, "unique")
    ELSE Outcome(att \cup {row}, profs, evs, "ok")

\* UPDATE profiles SET role = role WHERE user_id = target
UpdateProfileRole(att, profs, evs, caller, target, role) ==
    IF ~ ProfileUpdatePolicy(profs, caller, target)
    THEN Outcome(att, profs, evs, "filtered")
    ELSE Outcome(att, [profs EXCEPT ![target].role = role], evs, "ok")

\* UPDATE profiles SET total_hours = total WHERE user_id = target
UpdateProfileHours(att, profs, evs, caller, target, total) ==
    IF ~ ProfileUpdatePolicy(profs, caller, target)
    THEN Outcome(att, profs, evs, "filtered")
    ELSE Outcome(att, [profs EXCEPT ![target].total_hours = total], evs, "ok")

\* SELECT ... FROM profiles WHERE user_id = target: the rows a SELECT policy
\* admits (the policies of one command are OR-ed)
SelectProfile(profs, caller, target) ==
    IF ProfileSelectOwnPolicy(caller, target) \/ ProfileSelectAllPolicy(profs, caller)
    THEN {target}
    ELSE {}

\* INSERT INTO events
InsertEvent(att, profs, evs, caller, row) ==
    IF ~ EventWritePolicy(profs, caller)
    THEN Outcome(att, profs, evs, "rls")
    ELSE Outcome(att, profs, evs \cup {row}, "ok")

\* UPDATE events SET hours_value = hours WHERE id = id
UpdateEvent(att, profs, evs, caller, id, hours) ==
    IF ~ EventWritePolicy(profs, caller)
    THEN Outcome(att, profs, evs, "filtered")
    ELSE IF ~ \E e \in evs : e.id = id
    THEN Outcome(att, profs, evs, "nomatch")
    ELSE Outcome(att, profs,
                 {IF e.id = id THEN [e EXCEPT !.hours_value = hours] ELSE e : e \in evs},
                 "ok")

\* (variant: the delete cascading to the attendance rows of every event)
DeleteEventCascadeAll(att, profs, evs, caller, id) ==
    IF ~ EventWritePolicy(profs, caller)
    THEN Outcome(att, profs, evs, "filtered")
    ELSE IF ~ \E e \in evs : e.id = id
    THEN Outcome(att, profs, evs, "nomatch")
    ELSE Outcome({}, profs, {e \in evs : e.id # id}, "ok")

\* DELETE FROM events WHERE id = id; attendance.event_id ... ON DELETE CASCADE
DeleteEvent(att, profs, evs, caller, id) ==
    IF ~ EventWritePolicy(profs, caller)
    THEN Outcome(att, profs, evs, "filtered")
    ELSE IF ~ \E e \in evs : e.id = id
    THEN Outcome(att, profs, evs, "nomatch")
    ELSE Outcome({a \in att : a.event_id # id}, profs, {e \in evs : e.id # id}, "ok")

\* what the dashboards tell the caller of a statement's result:
\* if (error) throw error (the destructive toast), otherwise the success
\* toast; an UPDATE or DELETE whose rows the policy filters raises no error
Reported(result) ==
    IF result \in {"ok", "filtered", "nomatch"} THEN "success" ELSE "error"

---------------------------------------------------------------------------
(* State *)

\* what is recorded of the statement executed last: which operation, the
\* acting identity, the profile concerned, the row id, the status before and
\* after, the answer of the data API, and the concerned profile's
\* total_hours before the statement
\* (of a statement without effect only the operation and the result are
\* recorded)
Entry(op, caller, target, id, from, to, result, prev) ==
    IF result = "ok"
    THEN [op |-> op, caller |-> caller, target |-> target, id |-> id,
          from |-> from, to |-> to, result |-> result, prev |-> prev]
    ELSE [op |-> op, caller |-> NoUser, target |-> NoUser, id |-> 0,
          from |-> "-", to |-> "-", result |-> result, prev |-> 0]

\* of updateUserRole the acting identity, the profile and the role asked for
\* are recorded also when the statement has no effect
RoleEntry(caller, userId, from, newRole, result, prev) ==
    [op |-> "updateUserRole", caller |-> caller, target |-> userId, id |-> 0,
     from |-> IF result = "ok" THEN from ELSE "-", to |-> newRole, result |-> result,
     prev |-> IF result = "ok" THEN prev ELSE 0]

NoEntry == Entry("none", NoUser, NoUser, 0, "-", "-", "ok", 0)

\* a request a dashboard has sent
Request(kind, caller, event_id, hours, id, status) ==
    [kind |-> kind, caller |-> caller, event_id |-> event_id, hours |-> hours,
     id |-> id, status |-> status]

Init ==
    /\ profiles = [u \in Users |-> [role |-> SeedRole(u), total_hours |-> 0]]
    /\ events = {}
    /\ attendance = {}
    /\ nextEventId = 1
    /\ nextAttendanceId = 1
    /\ inflight = EmptyBag
    /\ last = NoEntry

\* the tables after a statement; runs that take a total_hours beyond TotalCap
\* are not explored
Commit(out) ==
    /\ \A u \in Users : out.profs[u].total_hours <= TotalCap
    /\ attendance' = out.att
    /\ profiles' = out.profs
    /\ events' = out.evs

StatusOf(att, id) ==
    IF TargetRows(att, id) = {} THEN "-" ELSE (CHOOSE a \in TargetRows(att, id) : TRUE).status

OwnerOf(att, id) ==
    IF TargetRows(att, id) = {} THEN NoUser ELSE (CHOOSE a \in TargetRows(att, id) : TRUE).user_id

TotalOf(profs, u) == IF u \in Users THEN profs[u].total_hours ELSE 0

---------------------------------------------------------------------------
(* Dashboards: a click sends a request; the store executes it later *)

\* MemberDashboard.isSignedUp, on the attendance list fetched by fetchData
isSignedUp(att, u, eventId) == \E a \in att : a.user_id = u /\ a.event_id = eventId

\* MemberDashboard (rendered for role member): the Sign Up button of an event
\* of the fetched list, which calls signUpForEvent(event.id, event.hours_value);
\* the request carries that copy of hours_value until the store executes it
signUpForEvent(u, e) ==
    /\ HasRole(profiles, u, {"member"})
    /\ e \in events
    /\ ~ isSignedUp(attendance, u, e.id)
    /\ BagCardinality(inflight) < MaxInFlight
    /\ inflight' = inflight (+) SetToBag({Request("signup", u, e.id, e.hours_value, 0, "pending")})
    /\ UNCHANGED <<profiles, events, attendance, nextEventId, nextAttendanceId, last>>

\* OfficerDashboard (rendered for role officer): Approve / Deny of a row of
\* the pending list fetched by fetchData
updateAttendanceStatus(o, a, status) ==
    /\ HasRole(profiles, o, {"officer"})
    /\ a \in attendance
    /\ a.status = "pending"
    /\ BagCardinality(inflight) < MaxInFlight
    /\ inflight' = inflight (+) SetToBag({Request("status", o, 0, 0, a.id, status)})
    /\ UNCHANGED <<profiles, events, attendance, nextEventId, nextAttendanceId, last>>

\* the store executes the insert of signUpForEvent
ExecuteSignUp(req) ==
    /\ req \in BagToSet(inflight)
    /\ req.kind = "signup"
    /\ LET row == [id |-> nextAttendanceId, event_id |-> req.event_id, user_id |-> req.caller,
                   status |-> "pending", hours_awarded |-> req.hours, verified_by |-> NoUser]
           out == InsertAttendance(attendance, profiles, events, req.caller, row)
       IN  /\ Commit(out)
           /\ nextAttendanceId' = IF out.result = "ok" THEN nextAttendanceId + 1 ELSE nextAttendanceId
           /\ last' = Entry("signUpForEvent", req.caller, req.caller, row.id, "-", "pending",
                            out.result, TotalOf(profiles, req.caller))
    /\ inflight' = inflight (-) SetToBag({req})
    /\ UNCHANGED nextEventId

\* the store executes the update of updateAttendanceStatus
ExecuteStatusUpdate(req) ==
    /\ req \in BagToSet(inflight)
    /\ req.kind = "status"
    /\ LET set == [status |-> req.status, verified_by |-> req.caller]
           out == UpdateAttendance(attendance, profiles, events, req.caller, req.id, set)
           owner == OwnerOf(attendance, req.id)
       IN  /\ Commit(out)
           /\ last' = Entry("updateAttendanceStatus", req.caller, owner, req.id,
                            StatusOf(attendance, req.id), req.status, out.result,
                            TotalOf(profiles, owner))
    /\ inflight' = inflight (-) SetToBag({req})
    /\ UNCHANGED <<nextEventId, nextAttendanceId>>

---------------------------------------------------------------------------
(* Statements sent to the data API directly, by any identity *)

ApiInsertAttendance(caller, uid, eid, status, hours) ==
    LET row == [id |-> nextAttendanceId, event_id |-> eid, user_id |-> uid,
                status |-> status, hours_awarded |-> hours, verified_by |-> NoUser]
        out == InsertAttendance(attendance, profiles, events, caller, row)
    IN  /\ Commit(out)
        /\ nextAttendanceId' = IF out.result = "ok" THEN nextAttendanceId + 1 ELSE nextAttendanceId
        /\ last' = Entry("insertAttendance", caller, uid, row.id, "-", status, out.result,
                         TotalOf(profiles, uid))
        /\ UNCHANGED <<nextEventId, inflight>>

ApiUpdateAttendance(caller, id, set) ==
    LET out == UpdateAttendance(attendance, profiles, events, caller, id, set)
        owner == OwnerOf(attendance, id)
    IN  /\ Commit(out)
        /\ last' = Entry("updateAttendance", caller, owner, id, StatusOf(attendance, id),
                         IF "status" \in DOMAIN set THEN set.status ELSE StatusOf(attendance, id),
                         out.result, TotalOf(profiles, owner))
        /\ UNCHANGED <<nextEventId, nextAttendanceId, inflight>>

\* AdminDashboard.updateUserRole, or the same update sent directly
updateUserRole(caller, userId, newRole) ==
    LET out == UpdateProfileRole(attendance, profiles, events, caller, userId, newRole)
    IN  /\ Commit(out)
        /\ last' = RoleEntry(caller, userId, profiles[userId].role, newRole,
                             out.result, TotalOf(profiles, userId))
        /\ UNCHANGED <<nextEventId, nextAttendanceId, inflight>>

ApiUpdateProfileHours(caller, userId, total) ==
    LET out == UpdateProfileHours(attendance, profiles, events, caller, userId, total)
    IN  /\ Commit(out)
        /\ last' = Entry("updateProfileHours", caller, userId, 0, "-", "-", out.result,
                         TotalOf(profiles, userId))
        /\ UNCHANGED <<nextEventId, nextAttendanceId, inflight>>

\* a read of the profile of userId (fetchData of the officer and admin
\* dashboards, or the same select): the row, or the empty result
readProfile(caller, userId) ==
    /\ last' = Entry("readProfile", caller, userId, 0, "-", "-",
                     IF SelectProfile(profiles, caller, userId) = {} THEN "nomatch" ELSE "ok",
                     0)
    /\ UNCHANGED <<profiles, events, attendance, nextEventId, nextAttendanceId, inflight>>

\* AdminDashboard.handleEventSubmit without editingEvent, or the same insert
createEvent(caller, hours) ==
    LET row == [id |-> nextEventId, hours_value |-> hours]
        out == InsertEvent(attendance, profiles, events, caller, row)
    IN  /\ out.result = "ok" => nextEventId <= MaxEvents
        /\ Commit(out)
        /\ nextEventId' = IF out.result = "ok" THEN nextEventId + 1 ELSE nextEventId
        /\ last' = Entry("createEvent", caller, NoUser, row.id, "-", "-", out.result, 0)
        /\ UNCHANGED <<nextAttendanceId, inflight>>

\* AdminDashboard.handleEventSubmit with editingEvent, or the same update
editEvent(caller, id, hours) ==
    LET out == UpdateEvent(attendance, profiles, events, caller, id, hours)
    IN  /\ Commit(out)
        /\ last' = Entry("editEvent", caller, NoUser, id, "-", "-", out.result, 0)
        /\ UNCHANGED <<nextEventId, nextAttendanceId, inflight>>

\* AdminDashboard.deleteEvent, or the same delete
deleteEvent(caller, id) ==
    LET out == DeleteEvent(attendance, profiles, events, caller, id)
    IN  /\ Commit(out)
        /\ last' = Entry("deleteEvent", caller, NoUser, id, "-", "-", out.result, 0)
        /\ UNCHANGED <<nextEventId, nextAttendanceId, inflight>>

---------------------------------------------------------------------------
(* Specifications *)

\* the column assignments of a direct attendance update
AttendanceSets ==
    [status : attendance_status]
    \cup [status : attendance_status, hours_awarded : HourValues]
    \cup [hours_awarded : HourValues]

Requests == BagToSet(inflight)

EventIds == {e.id : e \in events}

\* the ids of the attendance rows, and one id no row has
AttendanceIds == {a.id : a \in attendance} \cup {nextAttendanceId}

\* the identities whose dashboard is the member dashboard
Members == {u \in Users : HasRole(profiles, u, {"member"})}

\* the administrator u1 has created two events worth 2 hours each and has
\* then made themself an officer; u2 is a member
Seeded ==
    /\ profiles = [u \in Users |->
                     [role |-> IF u = "u1" THEN "officer" ELSE "member", total_hours |-> 0]]
    /\ events = {[id |-> 1, hours_value |-> 2], [id |-> 2, hours_value |-> 2]}
    /\ attendance = {}
    /\ nextEventId = 3
    /\ nextAttendanceId = 1
    /\ inflight = EmptyBag
    /\ last = NoEntry

(* Hour accounting: the member inserts attendance rows through the data API *)
(* with any status and any hours the schema accepts, and both identities    *)
(* send updates of status and hours; the roles and the events stay as they  *)
(* are.                                                                     *)

NextHours ==
    \/ \E u \in Members, eid \in EventIds, s \in attendance_status, h \in HourValues \cup {NULL} :
          ApiInsertAttendance(u, u, eid, s, h)
    \/ \E caller \in Users, id \in AttendanceIds, set \in AttendanceSets :
          ApiUpdateAttendance(caller, id, set)

SpecHours == Seeded /\ [][NextHours]_vars

(* Concurrent dashboards: requests sent from the member and officer         *)
(* dashboards are executed by the store in any order, while status updates  *)
(* also arrive directly.                                                    *)

NextRace ==
    \/ \E u \in Users, e \in events : signUpForEvent(u, e)
    \/ \E o \in Users, a \in attendance, s \in {"approved", "denied"} :
          updateAttendanceStatus(o, a, s)
    \/ \E req \in Requests : ExecuteSignUp(req)
    \/ \E req \in Requests : ExecuteStatusUpdate(req)
    \/ \E caller \in Users, id \in AttendanceIds, set \in [status : attendance_status] :
          ApiUpdateAttendance(caller, id, set)

SpecRace == Seeded /\ [][NextRace]_vars

(* Administration: every identity sends updates of profiles and writes of   *)
(* events, from the state in which only the profiles exist.                 *)

NextAdmin ==
    \/ \E caller \in Users, userId \in Users, r \in user_role :
          updateUserRole(caller, userId, r)
    \/ \E caller \in Users, userId \in Users, t \in DirectTotals :
          ApiUpdateProfileHours(caller, userId, t)
    \/ \E caller \in Users, h \in HourValues : createEvent(caller, h)
    \/ \E caller \in Users, id \in 1..MaxEvents, h \in HourValues : editEvent(caller, id, h)
    \/ \E caller \in Users, id \in 1..MaxEvents : deleteEvent(caller, id)

SpecAdmin == Init /\ [][NextAdmin]_vars

(* Access: every identity gives itself any role (the update of one's own    *)
(* profile), inserts pending attendance rows for itself and for the other   *)
(* identity, deletes events and reads profiles.                             *)

NextAccess ==
    \/ \E u \in Users, r \in user_role : updateUserRole(u, u, r)
    \/ \E caller \in Users, uid \in Users, eid \in 1..MaxEvents :
          ApiInsertAttendance(caller, uid, eid, "pending", 2)
    \/ \E caller \in Users, id \in 1..MaxEvents : deleteEvent(caller, id)
    \/ \E caller \in Users, userId \in Users : readProfile(caller, userId)

SpecAccess == Seeded /\ [][NextAccess]_vars

(* Stale sign-ups: the administrator edits the hours of the events while    *)
(* sign-ups of the member are on their way to the store.                    *)

\* the administrator u1 has created two events worth 2 hours each; u2 is a
\* member
SeededByAdmin ==
    /\ profiles = [u \in Users |-> [role |-> SeedRole(u), total_hours |-> 0]]
    /\ events = {[id |-> 1, hours_value |-> 2], [id |-> 2, hours_value |-> 2]}
    /\ attendance = {}
    /\ nextEventId = 3
    /\ nextAttendanceId = 1
    /\ inflight = EmptyBag
    /\ last = NoEntry

NextStale ==
    \/ \E u \in Users, e \in events : signUpForEvent(u, e)
    \/ \E req \in Requests : ExecuteSignUp(req)
    \/ \E caller \in Users, id \in EventIds, h \in HourValues : editEvent(caller, id, h)

SpecStale == SeededByAdmin /\ [][NextStale]_vars

(* Dashboards only: every write is one a dashboard sends, from the          *)
(* dashboard rendered for the role of the acting identity.                  *)

\* the hour values the event form of AdminDashboard accepts (min="1")
DashboardHours == {1, 2}

\* the identities whose dashboard is the admin dashboard
Admins == {u \in Users : HasRole(profiles, u, {"admin"})}

\* u1 is the administrator and has created one event worth 2 hours; u2
\* signed up for it as a member and has since been made an officer
SeededStaff ==
    /\ profiles = [u \in Users |->
                     [role |-> IF u = "u1" THEN "admin" ELSE "officer", total_hours |-> 0]]
    /\ events = {[id |-> 1, hours_value |-> 2]}
    /\ attendance = {[id |-> 1, event_id |-> 1, user_id |-> "u2", status |-> "pending",
                      hours_awarded |-> 2, verified_by |-> NoUser]}
    /\ nextEventId = 2
    /\ nextAttendanceId = 2
    /\ inflight = EmptyBag
    /\ last = NoEntry

NextDashboard ==
    \/ \E u \in Users, e \in events : signUpForEvent(u, e)
    \/ \E o \in Users, a \in attendance, s \in {"approved", "denied"} :
          updateAttendanceStatus(o, a, s)
    \/ \E req \in Requests : ExecuteSignUp(req)
    \/ \E req \in Requests : ExecuteStatusUpdate(req)
    \/ \E caller \in Admins, h \in DashboardHours : createEvent(caller, h)
    \/ \E caller \in Admins, id \in EventIds, h \in DashboardHours : editEvent(caller, id, h)
    \/ \E caller \in Admins, id \in EventIds : deleteEvent(caller, id)
    \/ \E caller \in Admins, userId \in Users, r \in user_role :
          updateUserRole(caller, userId, r)

SpecDashboard == SeededStaff /\ [][NextDashboard]_vars

(* Every operation; it is checked through the specifications above *)

Next == NextHours \/ NextRace \/ NextAdmin \/ NextAccess \/ NextStale \/ NextDashboard

Spec == Init /\ [][Next]_vars

---------------------------------------------------------------------------
(* Properties *)

AttendanceUpdateOps == {"updateAttendance", "updateAttendanceStatus"}

\* the statement executed last was an UPDATE of an attendance row that took
\* its status from from to to
Transitioned(from, to) ==
    /\ last.op \in AttendanceUpdateOps
    /\ last.result = "ok"
    /\ last.from = from
    /\ last.to = to

\* C1: every profile's total_hours is >= 0 in every reachable state, for any
\* sequence of sign-ups and status transitions with any integer
\* hours_awarded the schema accepts.
C1_TotalHoursNonNegative ==
    \A u \in Users : profiles[u].total_hours >= 0

\* C2: a step that takes an attendance row's status from a status other than
\* approved to approved raises the owning profile's total_hours by exactly
\* the row's hours_awarded (as the row stands after the update), and changes
\* no other profile's total_hours.
C2_ApprovalAddsHoursAwarded ==
    [][\A a \in attendance : \A b \in attendance' :
          (a.id = b.id /\ a.status # "approved" /\ b.status = "approved")
          => /\ b.hours_awarded # NULL
             /\ profiles'[b.user_id].total_hours
                  = profiles[b.user_id].total_hours + b.hours_awarded
             /\ \A u \in Users \ {b.user_id} :
                  profiles'[u].total_hours = profiles[u].total_hours]_vars

\* an approval of a pending row has been executed and the owner, who had
\* hours before, has gained the 2 hours of the row
C2_Witness ==
    /\ Transitioned("pending", "approved")
    /\ last.prev > 0
    /\ profiles[last.target].total_hours = last.prev + 2

\* C3: a step that takes an attendance row's status from approved to another
\* status sets the owning profile's total_hours to max(0, total_hours - H),
\* H the integer hours_awarded of the row before the update, and changes no
\* other profile's total_hours.
C3_RevocationSubtractsFloored ==
    [][\A a \in attendance : \A b \in attendance' :
          (a.id = b.id /\ a.status = "approved" /\ b.status # "approved")
          => /\ a.hours_awarded # NULL =>
                  profiles'[b.user_id].total_hours
                    = IF profiles[b.user_id].total_hours - a.hours_awarded >= 0
                      THEN profiles[b.user_id].total_hours - a.hours_awarded
                      ELSE 0
             /\ \A u \in Users \ {b.user_id} :
                  profiles'[u].total_hours = profiles[u].total_hours]_vars

\* an approved row has been taken out of approved and the owner's total has
\* gone down, but to more than zero
C3_Witness ==
    /\ \/ Transitioned("approved", "denied")
       \/ Transitioned("approved", "pending")
    /\ profiles[last.target].total_hours > 0
    /\ profiles[last.target].total_hours < last.prev

\* the floor of C3 at work: the subtraction would have gone below zero
C3_WitnessFloor ==
    /\ Transitioned("approved", "denied")
    /\ last.prev = 1
    /\ profiles[last.target].total_hours = 0

\* C4: a step in which no attendance row enters or leaves approved (a row
\* updated between pending and denied, or updated while it stays pending,
\* denied or approved) leaves every profile's total_hours unchanged.
C4_OtherTransitionsKeepTotals ==
    [][(\A a \in attendance : \A b \in attendance' :
           a.id = b.id => ((a.status = "approved") <=> (b.status = "approved")))
       => \A u \in Users : profiles'[u].total_hours = profiles[u].total_hours]_vars

\* a pending row of an owner who has hours has been denied
C4_Witness ==
    /\ Transitioned("pending", "denied")
    /\ last.prev > 0
    /\ profiles[last.target].total_hours = last.prev

\* an approved row has been updated and is still approved
C4_WitnessApproved ==
    /\ Transitioned("approved", "approved")
    /\ last.prev > 0

\* C5: round trip.  When a pending row is approved and the very next
\* statement denies the same row, the owning profile's total_hours after the
\* denial is what it was before the approval.
C5_RoundTripRestoresTotal ==
    [][(/\ Transitioned("pending", "approved")
        /\ last'.op \in AttendanceUpdateOps
        /\ last'.result = "ok"
        /\ last'.id = last.id
        /\ last'.from = "approved"
        /\ last'.to = "denied")
       => profiles'[last.target].total_hours = last.prev]_vars

\* C6: the status write and the adjustment of total_hours are one step.  A
\* step in which a row enters approved adds the row's hours in that same
\* step, a step in which a row leaves approved subtracts them (floored) in
\* that same step, and an update whose adjustment fails (total_hours would
\* become NULL) changes neither the attendance rows nor the profiles.
C6_StatusAndTotalTogether ==
    [][/\ \A a \in attendance : \A b \in attendance' :
            (a.id = b.id /\ a.status # "approved" /\ b.status = "approved")
            => profiles'[b.user_id].total_hours
                 = SqlAdd(profiles[b.user_id].total_hours, b.hours_awarded)
       /\ \A a \in attendance : \A b \in attendance' :
            (a.id = b.id /\ a.status = "approved" /\ b.status # "approved")
            => profiles'[b.user_id].total_hours
                 = GREATEST(0, SqlSub(profiles[b.user_id].total_hours, a.hours_awarded))
       /\ \A u \in Users : profiles'[u].total_hours # NULL
       /\ last'.result = "notnull" => (attendance' = attendance /\ profiles' = profiles)]_vars

\* the approval of a row whose hours_awarded is NULL has failed, and the row
\* is still not approved
C6_Witness ==
    /\ last.op = "updateAttendance"
    /\ last.result = "notnull"
    /\ \E a \in attendance : a.hours_awarded = NULL /\ a.status # "approved"

\* the request the store executes in this step
Executes(req) ==
    /\ req \in BagToSet(inflight)
    /\ inflight' = inflight (-) SetToBag({req})
    /\ BagCardinality(inflight') < BagCardinality(inflight)

RECURSIVE SumHours(_)
SumHours(rows) ==
    IF rows = {} THEN 0
    ELSE LET a == CHOOSE x \in rows : TRUE
         IN  a.hours_awarded + SumHours(rows \ {a})

\* the hours of the approved rows of u
ApprovedHours(u) ==
    SumHours({a \in attendance : a.user_id = u /\ a.status = "approved"})

\* C7: when status updates to one attendance row are in flight together
\* (from stale pending lists or repeated clicks), each one the store accepts
\* leaves the row with the status it carries, and adjusts total_hours once,
\* by the rule applied to the status the row had when the write was
\* executed: approving a row that a concurrent request has already approved
\* adds nothing, so that every total_hours equals the hours of the owner's
\* approved rows (H after two concurrent approvals of a row of H hours, not
\* 2H, and nothing lost).
C7_ConcurrentUpdatesCountOnce ==
    /\ [](\A u \in Users : profiles[u].total_hours = ApprovedHours(u))
    /\ [][\A req \in BagToSet(inflight) :
            (req.kind = "status" /\ Executes(req) /\ last'.result = "ok")
            => \E a \in attendance : \E b \in attendance' :
                 /\ a.id = req.id
                 /\ b.id = req.id
                 /\ b.status = req.status
                 /\ profiles'[a.user_id].total_hours
                      = IF a.status # "approved" /\ req.status = "approved"
                        THEN profiles[a.user_id].total_hours + a.hours_awarded
                        ELSE IF a.status = "approved" /\ req.status # "approved"
                        THEN profiles[a.user_id].total_hours - a.hours_awarded
                        ELSE profiles[a.user_id].total_hours]_vars

\* a second approval, sent from the officer dashboard while the row was
\* still pending, has been executed on the row after it was approved, and
\* the owner holds the row's 2 hours
C7_Witness ==
    /\ last.op = "updateAttendanceStatus"
    /\ last.result = "ok"
    /\ last.from = "approved"
    /\ last.to = "approved"
    /\ last.prev = 2
    /\ profiles[last.target].total_hours = 2

\* C8: there is at most one attendance row per (event, user) pair, and the
\* insert of a sign-up for a pair that already has a row (a repeated
\* signUpForEvent sent before the attendance list was fetched again) fails
\* with the violation of the unique constraint and adds no row.
C8_OneRowPerEventAndUser ==
    /\ [](\A a \in attendance : \A b \in attendance :
            (a.event_id = b.event_id /\ a.user_id = b.user_id) => a = b)
    /\ [][\A req \in BagToSet(inflight) :
            (/\ req.kind = "signup"
             /\ Executes(req)
             /\ \E a \in attendance : a.event_id = req.event_id /\ a.user_id = req.caller)
            => (last'.result = "unique" /\ attendance' = attendance)]_vars

\* a second sign-up of a member for an event has been refused by the unique
\* constraint
C8_Witness ==
    /\ last.op = "signUpForEvent"
    /\ last.result = "unique"
    /\ \E a \in attendance : a.user_id \in Members

\* C9: every attendance row is created with status pending, whoever inserts
\* it and whatever the insert carries.
C9_CreatedPending ==
    [][\A b \in attendance' :
          (\A a \in attendance : a.id # b.id) => b.status = "pending"]_vars

\* C10: a profile's role changes only through an update sent by an identity
\* whose own role, when the update is executed, is admin.
C10_RoleChangedOnlyByAdmin ==
    [][\A u \in Users :
          profiles'[u].role # profiles[u].role
          => /\ last'.op = "updateUserRole"
             /\ last'.caller \in Users
             /\ profiles[last'.caller].role = "admin"]_vars

\* C11: a profile's total_hours changes only in a step that executes an
\* UPDATE of an attendance row (the accounting rule of the trigger); no
\* update sent by a client, whatever its role and whichever profile it
\* names, sets total_hours directly.
C11_TotalHoursOnlyByAccounting ==
    [][\A u \in Users :
          profiles'[u].total_hours # profiles[u].total_hours
          => last'.op \in AttendanceUpdateOps]_vars

\* C12: the events table (the set of events and every event's fields)
\* changes only in a step that executes an event insert, update or delete
\* sent by an identity whose role, when the write is executed, is admin; the
\* same write by a member or an officer leaves events unchanged.
C12_EventWritesOnlyByAdmin ==
    [][events' # events
       => /\ last'.op \in {"createEvent", "editEvent", "deleteEvent"}
          /\ last'.caller \in Users
          /\ profiles[last'.caller].role = "admin"]_vars

\* an event update sent by an identity that is not an admin has been
\* executed without effect while an event exists and one identity is an
\* officer
C12_Witness ==
    /\ last.op = "editEvent"
    /\ last.result = "filtered"
    /\ events # {}
    /\ \E u \in Users : profiles[u].role = "officer"

\* C13: an existing attendance row, and any total_hours, changes only in a
\* step that executes an attendance UPDATE sent by an identity whose role is
\* officer or admin, so that an update sent by a member (the owner of the
\* row included) changes neither; and an officer's or admin's update of the
\* status of any row, whoever owns it, is never filtered by the policy: it
\* gives the row that status (unless the adjustment of total_hours fails).
C13_AttendanceUpdatedByOfficersOnly ==
    /\ [](\A o \in Users : \A a \in attendance : \A s \in attendance_status :
            HasRole(profiles, o, {"officer", "admin"})
            => LET out == UpdateAttendance(attendance, profiles, events, o, a.id,
                                           [status |-> s])
               IN  /\ out.result \in {"ok", "notnull"}
                   /\ out.result = "ok"
                        => \E b \in out.att : b.id = a.id /\ b.status = s)
    /\ [][(\/ \E a \in attendance : \E b \in attendance' : a.id = b.id /\ a # b
           \/ profiles' # profiles)
          => /\ last'.op \in AttendanceUpdateOps
             /\ last'.caller \in Users
             /\ profiles[last'.caller].role \in {"officer", "admin"}]_vars

\* an update sent by a member has been executed without effect, on tables
\* in which the officer has approved a row of the member
C13_Witness ==
    /\ last.op = "updateAttendance"
    /\ last.result = "filtered"
    /\ \E a \in attendance :
          /\ a.status = "approved"
          /\ profiles[a.user_id].role = "member"
          /\ profiles[a.user_id].total_hours = 2

\* C14: an attendance row is created only with user_id equal to the acting
\* identity.  In every reachable state, whatever the roles, an insert whose
\* user_id differs from the caller is refused by the policy and adds no
\* row, and an insert for oneself is not refused by the policy; and every
\* row a step adds carries the identity that sent the insert.
C14_CreatedOnlyForOneself ==
    /\ [](\A caller \in Users : \A uid \in Users : \A e \in events :
            LET row == [id |-> nextAttendanceId, event_id |-> e.id, user_id |-> uid,
                        status |-> "pending", hours_awarded |-> e.hours_value,
                        verified_by |-> NoUser]
                out == InsertAttendance(attendance, profiles, events, caller, row)
            IN  /\ caller # uid => (out.result = "rls" /\ out.att = attendance)
                /\ caller = uid => out.result \in {"ok", "unique"})
    /\ [][\A b \in attendance' :
            (\A a \in attendance : a.id # b.id)
            => /\ last'.op \in {"insertAttendance", "signUpForEvent"}
               /\ b.user_id = last'.caller]_vars

\* an admin has inserted a row for themself, while the other identity, an
\* officer, holds a row of their own
C14_Witness ==
    /\ last.op = "insertAttendance"
    /\ last.result = "ok"
    /\ profiles[last.caller].role = "admin"
    /\ \E a \in attendance : a.user_id # last.caller /\ profiles[a.user_id].role = "officer"

\* C15: every attendance row references an existing event in every
\* reachable state, and a step that deletes an event deletes exactly the
\* attendance rows that reference it: the rows of the other events stay as
\* they are.
C15_DeleteCascadesToAttendance ==
    /\ [](\A a \in attendance : \E e \in events : e.id = a.event_id)
    /\ [][\A e \in events :
            (\A f \in events' : f.id # e.id)
            => attendance' = {a \in attendance : a.event_id # e.id}]_vars

\* an event with a row has been deleted and a row of the other event is
\* still there
C15_Witness ==
    /\ last.op = "deleteEvent"
    /\ last.result = "ok"
    /\ attendance # {}
    /\ nextAttendanceId > Cardinality(attendance) + 1

\* C16: a write that fails (refused by a policy, by a constraint or by a
\* missing reference) leaves events, attendance and profiles as they were
\* and is reported to the caller as an error, not as success.
C16_FailedWritesReportedAsErrors ==
    [][last'.result \in {"filtered", "rls", "fk", "unique", "notnull"}
       => /\ events' = events
          /\ attendance' = attendance
          /\ profiles' = profiles
          /\ Reported(last'.result) = "error"]_vars

\* C17: a read of a profile other than the caller's own returns the profile
\* only if the role stored for the caller, when the read is executed, is
\* officer or admin; a member's read returns at most the member's own
\* profile.
C17_OtherProfilesReadByStaffOnly ==
    [][(/\ last'.op = "readProfile"
        /\ last'.result = "ok"
        /\ last'.target # last'.caller)
       => profiles[last'.caller].role \in {"officer", "admin"}]_vars

\* an identity that has made itself an admin has read the profile of the
\* other identity, a member
C17_Witness ==
    /\ last.op = "readProfile"
    /\ last.result = "ok"
    /\ last.target # last.caller
    /\ profiles[last.caller].role = "admin"
    /\ profiles[last.target].role = "member"

\* C18: a step that changes the hours_awarded of a row whose status is and
\* stays approved leaves the owner's total_hours unchanged, and a step that
\* takes a row out of approved subtracts (floored at 0) the hours_awarded
\* the row holds when that step is executed, whatever was added when the
\* row was approved.
C18_HoursEditNotRetroactive ==
    [][\A a \in attendance : \A b \in attendance' :
          (a.id = b.id /\ a.status = "approved" /\ a.hours_awarded # NULL)
          => /\ (b.status = "approved" /\ b.hours_awarded # a.hours_awarded)
                  => profiles'[a.user_id].total_hours = profiles[a.user_id].total_hours
             /\ b.status # "approved"
                  => profiles'[a.user_id].total_hours
                       = GREATEST(0, profiles[a.user_id].total_hours - a.hours_awarded)]_vars

\* the only row of its owner was approved with 2 hours, edited to -1 while
\* approved, and has now been denied: the total went from 2 to 2 - (-1)
C18_Witness ==
    /\ Transitioned("approved", "denied")
    /\ last.prev = 2
    /\ profiles[last.target].total_hours = 3
    /\ Cardinality({a \in attendance : a.user_id = last.target}) = 1

\* C19: when an identity whose role is admin sends updateUserRole for the
\* profile of another user and the update is reported as successful, that
\* user's role is the new role.
C19_AdminReassignsAnyRole ==
    [][(/\ last'.op = "updateUserRole"
        /\ last'.caller \in Users
        /\ profiles[last'.caller].role = "admin"
        /\ last'.target # last'.caller
        /\ Reported(last'.result) = "success")
       => profiles'[last'.target].role = last'.to]_vars

\* C20: a row created by signUpForEvent has hours_awarded equal to the
\* hours_value its event holds in the events table at the moment the row is
\* created, also when the event was edited after the member's dashboard
\* took its copy.
C20_SignUpTakesStoredHours ==
    [][\A b \in attendance' :
          (/\ \A a \in attendance : a.id # b.id
           /\ last'.op = "signUpForEvent")
          => \E e \in events : e.id = b.event_id /\ b.hours_awarded = e.hours_value]_vars

\* C21: in every reachable state every attendance row whose status is
\* approved or denied has verified_by set, and the row a successfully
\* executed updateAttendanceStatus has written carries the identity that
\* sent it as verified_by.
C21_DecidedRowsHaveVerifier ==
    /\ [](\A a \in attendance :
            a.status \in {"approved", "denied"} => a.verified_by \in Users)
    /\ [][\A req \in BagToSet(inflight) :
            (req.kind = "status" /\ Executes(req) /\ last'.result = "ok")
            => \E b \in attendance' : b.id = req.id /\ b.verified_by = req.caller]_vars

\* C22: accounting invariant.  In every state reached through the
\* dashboards (signUpForEvent, updateAttendanceStatus, the creation, edit
\* and deletion of events, updateUserRole), each profile's total_hours is
\* the sum of hours_awarded over the owner's approved attendance rows.
C22_TotalIsSumOfApprovedHours ==
    \A u \in Users : profiles[u].total_hours = ApprovedHours(u)

====
